---- MODULE Spec2Model ----
(***************************************************************************)
(* Model of omero/util/metadata_utils.py: the bulk-annotation column       *)
(* configuration resolver (BulkAnnotationConfiguration), the row           *)
(* transformer (KeyValueListTransformer) and the pass-through transformer  *)
(* (KeyValueListPassThrough).                                              *)
(*                                                                         *)
(* Python strings are sequences of one-character strings, Python values    *)
(* are tagged records (PyBool / PyStr), Python dicts are functions whose   *)
(* domain is the dict's key set.                                           *)
(***************************************************************************)
EXTENDS Integers, Sequences, FiniteSets, TLC

(***************************************************************************)
(* Python values                                                           *)
(***************************************************************************)
PyBool(x) == [t |-> "bool", b |-> x, s |-> <<>>]
PyStr(x) == [t |-> "str", b |-> FALSE, s |-> x]

\* Python truthiness: `if v` / `not v` for a bool or a str
Truthy(v) == IF v.t = "bool" THEN v.b ELSE Len(v.s) > 0

EmptyDict == [k \in {} |-> PyBool(FALSE)]

\* d.copy() followed by .update(c)
DictUpdate(d, c) ==
    [k \in (DOMAIN d) \cup (DOMAIN c) |-> IF k \in DOMAIN c THEN c[k] ELSE d[k]]

(***************************************************************************)
(* Character classes of the re module and of str.strip()                   *)
(***************************************************************************)
Whitespace == {" "}
\* \w, restricted to the characters the model's strings are made of
WordChars == {"a", "b", "c", "e", "h", "l", "o", "p", "r", "s", "t", "u", "v",
              "x", "y", "A", "B", "C", "1", "2", "_"}

OpenBraces == <<"{", "{">>
CloseBraces == <<"}", "}">>
ValueWord == <<"v", "a", "l", "u", "e">>

\* s[i..] starts with the literal lit
StartsWith(s, i, lit) ==
    /\ i >= 1
    /\ i + Len(lit) - 1 <= Len(s)
    /\ \A k \in 1..Len(lit) : s[i + k - 1] = lit[k]

\* greedy c* : the first position >= i whose character is not in class
RECURSIVE SkipClass(_, _, _)
SkipClass(s, i, class) ==
    IF i <= Len(s) /\ s[i] \in class THEN SkipClass(s, i + 1, class) ELSE i

\* the pattern "\{\{\s*value\s*\}\}" matched at position i:
\* the position of the match's last character, 0 when it does not match
MatchValueAt(s, i) ==
    IF ~StartsWith(s, i, OpenBraces) THEN 0
    ELSE LET a == SkipClass(s, i + 2, Whitespace)
         IN  IF ~StartsWith(s, a, ValueWord) THEN 0
             ELSE LET b == SkipClass(s, a + Len(ValueWord), Whitespace)
                  IN  IF StartsWith(s, b, CloseBraces) THEN b + 1 ELSE 0

\* the pattern "\{\{[\s\w]*}\}" matched at position i (0: no match)
MatchTokenAt(s, i) ==
    IF ~StartsWith(s, i, OpenBraces) THEN 0
    ELSE LET a == SkipClass(s, i + 2, Whitespace \cup WordChars)
         IN  IF StartsWith(s, a, CloseBraces) THEN a + 1 ELSE 0

\* re.search("\{\{[\s\w]*}\}", s): the match's text, <<>> when there is none
\* (a match is never empty)
RECURSIVE SearchTokenFrom(_, _)
SearchTokenFrom(s, i) ==
    IF i > Len(s) THEN <<>>
    ELSE IF MatchTokenAt(s, i) > 0 THEN SubSeq(s, i, MatchTokenAt(s, i))
    ELSE SearchTokenFrom(s, i + 1)

re_search_token(s) == SearchTokenFrom(s, 1)

\* whether "\{\{\s*value\s*\}\}" matches anywhere in s
HasValueMatch(s) == \E i \in 1..Len(s) : MatchValueAt(s, i) > 0

\* the scan of re.sub("\{\{\s*value\s*\}\}", repl, s) for a literal repl:
\* every non-overlapping match, leftmost first, is replaced (count = 0)
RECURSIVE SubAllFrom(_, _, _)
SubAllFrom(s, i, repl) ==
    IF i > Len(s) THEN <<>>
    ELSE IF MatchValueAt(s, i) > 0
         THEN repl \o SubAllFrom(s, MatchValueAt(s, i) + 1, repl)
         ELSE <<s[i]>> \o SubAllFrom(s, i + 1, repl)

\* re.sub with count = 1: only the first match is replaced
re_sub_first(repl, s) ==
    LET starts == {i \in 1..Len(s) : MatchValueAt(s, i) > 0}
    IN  IF starts = {} THEN s
        ELSE LET i == CHOOSE x \in starts : \A y \in starts : x <= y
             IN  SubSeq(s, 1, i - 1) \o repl
                 \o SubSeq(s, MatchValueAt(s, i) + 1, Len(s))

re_sub_literal(repl, s) == SubAllFrom(s, 1, repl)

(***************************************************************************)
(* The replacement string of re.sub is a template: sre_parse               *)
(* parse_template reads its backslash escapes.                             *)
(***************************************************************************)
Backslash == "\\"
Digits == {"1"}
\* sre_parse.ESCAPES restricted to the model's alphabet
EscapeOf(c) == CASE c = Backslash -> <<Backslash>>
                 [] c = "a" -> <<"BEL">>
                 [] c = "b" -> <<"BS">>
                 [] OTHER -> <<Backslash, c>>

\* [err |-> a parse error, refs |-> the template holds a group reference,
\*  lit |-> its literal text]
RECURSIVE ParseTemplateFrom(_, _)
ParseTemplateFrom(v, i) ==
    IF i > Len(v) THEN [err |-> FALSE, refs |-> FALSE, lit |-> <<>>]
    ELSE IF v[i] # Backslash
         THEN LET r == ParseTemplateFrom(v, i + 1)
              IN  [r EXCEPT !.lit = <<v[i]>> \o @]
    ELSE IF i = Len(v)
         THEN [err |-> TRUE, refs |-> FALSE, lit |-> <<>>]
    ELSE LET r == ParseTemplateFrom(v, i + 2)
         IN  IF v[i + 1] \in Digits
             THEN [r EXCEPT !.refs = TRUE]
             ELSE [r EXCEPT !.lit = EscapeOf(v[i + 1]) \o @]

parse_template(v) == ParseTemplateFrom(v, 1)

(***************************************************************************)
(* str.split(sep) for a non-empty sep, and str.strip()                     *)
(***************************************************************************)
RECURSIVE SplitFrom(_, _, _, _)
\* start: where the current piece began; i: the scan position
SplitFrom(s, sep, start, i) ==
    IF i > Len(s) THEN << SubSeq(s, start, Len(s)) >>
    ELSE IF StartsWith(s, i, sep)
         THEN << SubSeq(s, start, i - 1) >>
              \o SplitFrom(s, sep, i + Len(sep), i + Len(sep))
         ELSE SplitFrom(s, sep, start, i + 1)

str_split(s, sep) == SplitFrom(s, sep, 1, 1)

RECURSIVE LastNonWs(_, _)
LastNonWs(s, j) == IF j >= 1 /\ s[j] \in Whitespace THEN LastNonWs(s, j - 1) ELSE j

str_strip(s) == SubSeq(s, SkipClass(s, 1, Whitespace), LastNonWs(s, Len(s)))

(***************************************************************************)
(* Outcome of a call: the class of the exception it raised ("" when it     *)
(* returned) and the value it returned.                                    *)
(***************************************************************************)
Return(v) == [exc |-> "", val |-> v]
Raise(e) == [exc |-> e, val |-> <<>>]

\* an optional dict argument: None or a dict
NoneCfg == [none |-> TRUE, d |-> EmptyDict]
SomeCfg(d) == [none |-> FALSE, d |-> d]

(***************************************************************************)
(* BulkAnnotationConfiguration                                             *)
(***************************************************************************)
Placeholder == <<"{", "{", " ", "v", "a", "l", "u", "e", " ", "}", "}">>

default_defaults ==
    [clientvalue |-> PyStr(Placeholder),
     includeclient |-> PyBool(TRUE),
     include |-> PyBool(TRUE),
     split |-> PyBool(FALSE),
     type |-> PyStr(<<"s", "t", "r", "i", "n", "g">>),
     visible |-> PyBool(TRUE)]

\* the update the other way round: the base defaults overwrite the caller's
get_default_cfg_base_wins(cfg) ==
    LET c == IF cfg.none \/ DOMAIN cfg.d = {} THEN EmptyDict ELSE cfg.d
        invalid == (DOMAIN c) \ (DOMAIN default_defaults)
    IN  IF invalid # {} THEN Raise("Exception")
        ELSE Return(DictUpdate(c, default_defaults))

\* get_default_cfg(cfg)
get_default_cfg(cfg) ==
    LET c == IF cfg.none \/ DOMAIN cfg.d = {} THEN EmptyDict ELSE cfg.d
        invalid == (DOMAIN c) \ (DOMAIN default_defaults)
    IN  IF invalid # {} THEN Raise("Exception")
        ELSE Return(DictUpdate(default_defaults, c))

RequiredKeys == {"name"}
\* the optional set with one key forgotten
OptionalKeysWithoutPosition ==
    {"clientname", "clientvalue", "includeclient", "include", "split", "type",
     "visible"}

OptionalKeys == {"clientname", "clientvalue", "includeclient", "position",
                 "include", "split", "type", "visible"}

\* the try block of validate_column_config: the template check
ClientValueCheck(cfg) ==
    IF "clientvalue" \notin DOMAIN cfg THEN Return(TRUE)
    ELSE LET subbed == re_sub_literal(<<>>, cfg["clientvalue"].s)
             m == re_search_token(subbed)
         IN  IF m # <<>> THEN Raise("Exception") ELSE Return(TRUE)

\* validate_column_config(cfg)
validate_column_config(cfg) ==
    LET keys == DOMAIN cfg
        missing == RequiredKeys \ keys
        invalid == keys \ (OptionalKeys \cup RequiredKeys)
    IN  IF missing # {} THEN Raise("Exception")
        ELSE IF ~Truthy(cfg["name"]) THEN Raise("Exception")
        ELSE IF invalid # {} THEN Raise("Exception")
        ELSE ClientValueCheck(cfg)

\* get_column_config(self, cfg): the outcome, and self.defaults after the call
get_column_config(self_defaults, cfg) ==
    LET v == validate_column_config(cfg)
    IN  IF v.exc # "" THEN [exc |-> v.exc, val |-> <<>>, defaults |-> self_defaults]
        ELSE [exc |-> "",
              val |-> DictUpdate(self_defaults, cfg),
              defaults |-> self_defaults]

(***************************************************************************)
(* KeyValueListTransformer.transform1                                      *)
(***************************************************************************)
\* valuesub(v, cv): re.sub("\{\{\s*value\s*\}\}", v, cv); v is a template
valuesub(v, cv) ==
    LET tpl == parse_template(v)
    IN  IF tpl.err THEN Raise("error")
        ELSE IF tpl.refs /\ HasValueMatch(cv) THEN Raise("error")
        ELSE Return(re_sub_literal(tpl.lit, cv))

\* the prefix put on the name before clientname replaces the key
Transform1KeyPrefixThenRename(cfg) ==
    IF "clientname" \in DOMAIN cfg THEN cfg["clientname"].s
    ELSE IF "visible" \in DOMAIN cfg /\ ~Truthy(cfg["visible"])
         THEN <<"_", "_">> \o cfg["name"].s
         ELSE cfg["name"].s

\* lines 176-186: the key
Transform1Key(cfg) ==
    LET key1 == IF "clientname" \in DOMAIN cfg THEN cfg["clientname"].s
                ELSE cfg["name"].s
    IN  IF "visible" \in DOMAIN cfg /\ ~Truthy(cfg["visible"])
        THEN <<"_", "_">> \o key1
        ELSE key1

\* lines 188-191: the values before templating (split holds False or a string)
Transform1Split(value, cfg) ==
    IF "split" \in DOMAIN cfg /\ Truthy(cfg["split"]) /\ cfg["split"].t = "str"
    THEN LET pieces == str_split(value, cfg["split"].s)
         IN  [i \in 1..Len(pieces) |-> str_strip(pieces[i])]
    ELSE <<value>>

\* transform1(self, value, cfg): Return(<<key, values>>) or the exception
transform1(value, cfg) ==
    LET key == Transform1Key(cfg)
        values == Transform1Split(value, cfg)
    IN  IF "split" \in DOMAIN cfg /\ cfg["split"] = PyBool(TRUE)
        THEN Raise("TypeError")
        ELSE IF "clientvalue" \notin DOMAIN cfg THEN Return(<<key, values>>)
        ELSE LET subs == [i \in 1..Len(values) |->
                             valuesub(values[i], cfg["clientvalue"].s)]
             IN  IF \E i \in 1..Len(values) : subs[i].exc # ""
                 THEN Raise("error")
                 ELSE Return(<<key, [i \in 1..Len(values) |-> subs[i].val]>>)

(***************************************************************************)
(* KeyValueListTransformer: construction and transform                     *)
(***************************************************************************)
\* dict((b, a) for (a, b) in enumerate(headers)): a later header of the same
\* name overwrites the earlier one; indices are zero-based
build_headerindexmap(hs) ==
    [h \in {hs[i] : i \in 1..Len(hs)} |->
        CHOOSE a \in 0..(Len(hs) - 1) :
            /\ hs[a + 1] = h
            /\ \A b \in 0..(Len(hs) - 1) : hs[b + 1] = h => b <= a]

\* the outcome of the list comprehension of transform from its k-th element on:
\* the first element that raises decides the exception
RECURSIVE TransformFrom(_, _, _)
TransformFrom(row, ocs, k) ==
    IF k > Len(ocs) THEN Return(<<>>)
    ELSE LET c == ocs[k][1]
             i == ocs[k][2]
         IN  IF i >= Len(row) THEN Raise("IndexError")
             ELSE LET kv == transform1(row[i + 1], c)
                  IN  IF kv.exc # "" THEN Raise(kv.exc)
                      ELSE LET rest == TransformFrom(row, ocs, k + 1)
                           IN  IF rest.exc # "" THEN rest
                               ELSE Return(<<kv.val>> \o rest.val)

\* the output configs visited in table header order
RECURSIVE ByHeaderIndexFrom(_, _, _)
ByHeaderIndexFrom(ocs, i, n) ==
    IF i > n THEN <<>>
    ELSE SelectSeq(ocs, LAMBDA oc : oc[2] = i) \o ByHeaderIndexFrom(ocs, i + 1, n)

transform_in_header_order(row, him, ocs) ==
    IF Len(row) # Cardinality(DOMAIN him) THEN Raise("AssertionError")
    ELSE TransformFrom(row, ByHeaderIndexFrom(ocs, 0, Len(row)), 1)

\* transform(self, rowvalues)
transform(row, him, ocs) ==
    IF Len(row) # Cardinality(DOMAIN him) THEN Raise("AssertionError")
    ELSE TransformFrom(row, ocs, 1)

\* zip(self.headers, rowvals)
zip(hs, row) ==
    [i \in 1..(IF Len(hs) < Len(row) THEN Len(hs) ELSE Len(row)) |->
        <<hs[i], row[i]>>]

(***************************************************************************)
(* Inputs                                                                  *)
(***************************************************************************)
MaxHeaders == 3
MaxCols == 2
MaxRowLen == 4
MaxRows == 2

\* all sequences over S of length at most n
SeqsUpTo(S, n) == UNION {[1..k -> S] : k \in 0..n}

HeaderNames == {<<"A">>, <<"B">>, <<"U">>}
HeaderLists == SeqsUpTo(HeaderNames, MaxHeaders)

TwoPlaceholders == Placeholder \o <<"{", "{", "v", "a", "l", "u", "e", "}", "}">>
OtherToken == <<"{", "{", " ", "o", "t", "h", "e", "r", " ", "}", "}">>
ValueAndOther == <<"{", "{", "v", "a", "l", "u", "e", "}", "}", "-">> \o OtherToken
PrefixSuffix == <<"p", "-">> \o Placeholder \o <<"-", "s">>

\* the cells a table row is cut from
Cells == << <<"1">>, <<"x", ";", "y">>, <<"c">>, <<" ", "2">>, <<"b">>, <<"a">> >>
Rows == {SubSeq(Cells, 1, n) : n \in 0..MaxRowLen}

DefaultCfgs ==
    { NoneCfg,
      SomeCfg([clientvalue |-> PyStr(OtherToken)]),
      SomeCfg([bogus |-> PyBool(TRUE)]) }

\* two configs for headers A and B, one naming no header, one that is invalid
ColumnCfgs ==
    { [name |-> PyStr(<<"A">>), clientname |-> PyStr(<<"a", "l">>)],
      [name |-> PyStr(<<"B">>), split |-> PyStr(<<";">>),
       clientvalue |-> PyStr(PrefixSuffix)],
      [name |-> PyStr(<<"C">>)],
      [name |-> PyStr(<<"B">>), clientvalue |-> PyStr(ValueAndOther)] }

(***************************************************************************)
(* State                                                                   *)
(***************************************************************************)
VARIABLES
    headers,         \* KeyValueListTransformer.__init__ argument
    default_cfg,     \* __init__ argument (None or a dict)
    column_cfgs_arg, \* __init__ argument: the column configs as supplied
    pc,              \* position in __init__ / state of the transformer
    defaults,        \* self.defaults
    column_cfgs,     \* self.column_cfgs
    headerindexmap,  \* self.headerindexmap
    output_configs,  \* self.output_configs
    error,           \* class of the exception __init__ raised, "" if none
    rowvalues,       \* argument of the last transform call
    rowkvs,          \* outcome of the last transform call
    pt,              \* the KeyValueListPassThrough object and its generator
    call             \* the last call of a static / pure method

vars == <<headers, default_cfg, column_cfgs_arg, pc, defaults, column_cfgs,
          headerindexmap, output_configs, error, rowvalues, rowkvs, pt, call>>

tvars == <<headers, default_cfg, column_cfgs_arg, pc, defaults, column_cfgs,
           headerindexmap, output_configs, error, rowvalues, rowkvs>>

NoCall == [fn |-> "none"]
NoPassThrough == [state |-> "none"]

Init ==
    /\ headers = <<>>
    /\ default_cfg = NoneCfg
    /\ column_cfgs_arg = <<>>
    /\ pc = "idle"
    /\ defaults = EmptyDict
    /\ column_cfgs = <<>>
    /\ headerindexmap = EmptyDict
    /\ output_configs = <<>>
    /\ error = ""
    /\ rowvalues = <<>>
    /\ rowkvs = Return(<<>>)
    /\ pt = NoPassThrough
    /\ call = NoCall

(***************************************************************************)
(* KeyValueListTransformer(headers, default_cfg, column_cfgs)              *)
(***************************************************************************)
\* the constructor is called
Construct ==
    /\ pc = "idle"
    /\ \E hs \in HeaderLists, d \in DefaultCfgs,
          cs \in SeqsUpTo(ColumnCfgs, MaxCols) :
          /\ headers' = hs
          /\ default_cfg' = d
          /\ column_cfgs_arg' = cs
    /\ pc' = "defaults"
    /\ UNCHANGED <<defaults, column_cfgs, headerindexmap, output_configs,
                   error, rowvalues, rowkvs, pt, call>>

\* line 42: self.defaults = self.get_default_cfg(default_cfg)
InitDefaults ==
    /\ pc = "defaults"
    /\ LET r == get_default_cfg(default_cfg)
       IN  IF r.exc # ""
           THEN /\ pc' = "failed"
                /\ error' = r.exc
                /\ UNCHANGED defaults
           ELSE /\ pc' = "columns"
                /\ defaults' = r.val
                /\ UNCHANGED error
    /\ UNCHANGED <<headers, default_cfg, column_cfgs_arg, column_cfgs,
                   headerindexmap, output_configs, rowvalues, rowkvs, pt, call>>

\* line 43: one element of [self.get_column_config(c) for c in column_cfgs]
ResolveColumn ==
    /\ pc = "columns"
    /\ Len(column_cfgs) < Len(column_cfgs_arg)
    /\ LET r == get_column_config(defaults, column_cfgs_arg[Len(column_cfgs) + 1])
       IN  /\ defaults' = r.defaults
           /\ IF r.exc # ""
              THEN /\ pc' = "failed"
                   /\ error' = r.exc
                   /\ UNCHANGED column_cfgs
              ELSE /\ column_cfgs' = Append(column_cfgs, r.val)
                   /\ UNCHANGED <<pc, error>>
    /\ UNCHANGED <<headers, default_cfg, column_cfgs_arg, headerindexmap,
                   output_configs, rowvalues, rowkvs, pt, call>>

\* lines 158-159: the header index map and the empty output_configs
BuildIndex ==
    /\ pc = "columns"
    /\ Len(column_cfgs) = Len(column_cfgs_arg)
    /\ headerindexmap' = build_headerindexmap(headers)
    /\ output_configs' = <<>>
    /\ pc' = "outputs"
    /\ UNCHANGED <<headers, default_cfg, column_cfgs_arg, defaults, column_cfgs,
                   error, rowvalues, rowkvs, pt, call>>

\* a lookup with a default, him.get(name, 0), in place of him[name]
output_config_or_first(cfg, him) ==
    IF cfg["name"].s \in DOMAIN him
    THEN Return(<<cfg, him[cfg["name"].s]>>)
    ELSE Return(<<cfg, 0>>)

\* line 162: (cfg, self.headerindexmap[cfg["name"]]), KeyError for no such header
output_config(cfg, him) ==
    IF cfg["name"].s \in DOMAIN him
    THEN Return(<<cfg, him[cfg["name"].s]>>)
    ELSE Raise("KeyError")

\* lines 160-162: one turn of the loop
AppendOutput ==
    /\ pc = "outputs"
    /\ Len(output_configs) < Len(column_cfgs)
    /\ LET r == output_config(column_cfgs[Len(output_configs) + 1], headerindexmap)
       IN  IF r.exc # ""
           THEN /\ pc' = "failed"
                /\ error' = r.exc
                /\ UNCHANGED output_configs
           ELSE /\ output_configs' = Append(output_configs, r.val)
                /\ UNCHANGED <<pc, error>>
    /\ UNCHANGED <<headers, default_cfg, column_cfgs_arg, defaults, column_cfgs,
                   headerindexmap, rowvalues, rowkvs, pt, call>>

\* __init__ returns: the caller holds the transformer
FinishInit ==
    /\ pc = "outputs"
    /\ Len(output_configs) = Len(column_cfgs)
    /\ pc' = "ready"
    /\ UNCHANGED <<headers, default_cfg, column_cfgs_arg, defaults, column_cfgs,
                   headerindexmap, output_configs, error, rowvalues, rowkvs,
                   pt, call>>

\* tr.transform(row)
Transform ==
    /\ pc \in {"ready", "transformed"}
    /\ \E row \in Rows :
          /\ rowvalues' = row
          /\ rowkvs' = transform(row, headerindexmap, output_configs)
    /\ pc' = "transformed"
    /\ UNCHANGED <<headers, default_cfg, column_cfgs_arg, defaults, column_cfgs,
                   headerindexmap, output_configs, error, pt, call>>

Next ==
    \/ Construct
    \/ InitDefaults
    \/ ResolveColumn
    \/ BuildIndex
    \/ AppendOutput
    \/ FinishInit
    \/ Transform

Spec == Init /\ [][Next]_vars

(***************************************************************************)
(* KeyValueListPassThrough                                                 *)
(***************************************************************************)
\* the loop body without its assert
transform_gen_row_unchecked(hs, row) == Return(zip(hs, row))

\* the body of the loop of transform_gen for one row: the assert, the yield
transform_gen_row(hs, row) ==
    IF Len(row) # Len(hs) THEN Raise("AssertionError") ELSE Return(zip(hs, row))

\* the default_cfg and column_cfgs the constructor is given
PassThroughArgs ==
    { <<NoneCfg, <<>>>>,
      <<SomeCfg([visible |-> PyBool(FALSE)]),
        << [name |-> PyStr(<<"A">>), clientname |-> PyStr(<<"a", "l">>),
            split |-> PyStr(<<";">>), clientvalue |-> PyStr(PrefixSuffix)] >> >> }

\* KeyValueListPassThrough(headers, default_cfg, column_cfgs).transform_gen(values):
\* the generator exists, none of its code has run
PassThroughNew ==
    /\ pt.state = "none"
    /\ \E hs \in HeaderLists, args \in PassThroughArgs,
          values \in SeqsUpTo(Rows, MaxRows) :
          pt' = [state |-> "suspended", headers |-> hs, args |-> args,
                 values |-> values, pos |-> 0, out |-> <<>>, exc |-> ""]
    /\ UNCHANGED <<tvars, call>>

\* next() on the generator: it runs to its next yield, to its end, or raises
PassThroughNext ==
    /\ pt.state = "suspended"
    /\ IF pt.pos = Len(pt.values)
       THEN pt' = [pt EXCEPT !.state = "done"]
       ELSE LET r == transform_gen_row(pt.headers, pt.values[pt.pos + 1])
            IN  IF r.exc # ""
                THEN pt' = [pt EXCEPT !.state = "failed", !.exc = r.exc,
                                      !.pos = @ + 1]
                ELSE pt' = [pt EXCEPT !.out = Append(@, r.val), !.pos = @ + 1]
    /\ UNCHANGED <<tvars, call>>

NextPassThrough == PassThroughNew \/ PassThroughNext

SpecPassThrough == Init /\ [][NextPassThrough]_vars

(***************************************************************************)
(* Calls of the configuration methods on their own                         *)
(***************************************************************************)
\* a value for each option, different from its base default
OptionValue ==
    [clientname |-> PyStr(<<"a", "l">>),
     clientvalue |-> PyStr(PrefixSuffix),
     includeclient |-> PyBool(FALSE),
     position |-> PyStr(<<"1">>),
     include |-> PyBool(FALSE),
     split |-> PyStr(<<",">>),
     type |-> PyStr(<<"x">>),
     visible |-> PyBool(FALSE),
     bogus |-> PyBool(TRUE)]

Restrict(f, K) == [k \in K |-> f[k]]

Templates ==
    { Placeholder, TwoPlaceholders, OtherToken, ValueAndOther, PrefixSuffix,
      <<"c">>,
      <<"{", "{">> \o Placeholder \o <<"}", "}">>,
      <<"{", "{", "a", "-", "b", "}", "}">>,
      <<"{", "{", "}", "}">> }

NameOptions == {EmptyDict, [name |-> PyStr(<<>>)], [name |-> PyStr(<<"A">>)]}

\* column configs: with and without name, every subset of the optional keys,
\* an unrecognized key, every template
ColumnCfgInputs ==
    { DictUpdate(DictUpdate(n, Restrict(OptionValue, K)), t) :
        n \in NameOptions,
        K \in SUBSET (DOMAIN OptionValue),
        t \in {EmptyDict} \cup {[clientvalue |-> PyStr(x)] : x \in Templates} }

\* default configs: None, and every subset of the recognized options, with
\* and without an unrecognized key
DefaultCfgInputs ==
    {NoneCfg} \cup
    { SomeCfg(Restrict(OptionValue, K)) :
        K \in SUBSET ((DOMAIN OptionValue) \ {"clientname", "position"}) }

CallGetDefaultCfg ==
    /\ call = NoCall
    /\ \E cfg \in DefaultCfgInputs :
          call' = [fn |-> "get_default_cfg", cfg |-> cfg,
                   ret |-> get_default_cfg(cfg)]
    /\ UNCHANGED <<tvars, pt>>

CallValidateColumnConfig ==
    /\ call = NoCall
    /\ \E cfg \in ColumnCfgInputs :
          call' = [fn |-> "validate_column_config", cfg |-> cfg,
                   ret |-> validate_column_config(cfg)]
    /\ UNCHANGED <<tvars, pt>>

\* the defaults of the objects get_column_config is called on
ResolvedDefaults ==
    { get_default_cfg(d).val :
        d \in {NoneCfg, SomeCfg([visible |-> PyBool(FALSE)]),
               SomeCfg([clientvalue |-> PyStr(OtherToken)])} }

CallGetColumnConfig ==
    /\ call = NoCall
    /\ \E d \in ResolvedDefaults, cfg \in ColumnCfgInputs :
          call' = [fn |-> "get_column_config", self_defaults |-> d, cfg |-> cfg,
                   ret |-> get_column_config(d, cfg)]
    /\ UNCHANGED <<tvars, pt>>

NextConfig == CallGetDefaultCfg \/ CallValidateColumnConfig \/ CallGetColumnConfig

SpecConfig == Init /\ [][NextConfig]_vars

(***************************************************************************)
(* Calls of transform1 on their own                                        *)
(***************************************************************************)
CellValues ==
    { <<>>, <<"a">>, <<"a", ",", " ", "b", " ", ",", "c">>, <<"x", ";", "y">>,
      <<" ", "2", " ">>, <<",">>, <<Backslash, "1">>, <<"a", Backslash>>,
      <<Backslash, Backslash>>, <<"a", ";", Backslash, "1">> }

Transform1ColumnCfgs ==
    { DictUpdate(DictUpdate(DictUpdate(DictUpdate(
          [name |-> PyStr(<<"A">>)], cn), vi), sp), cv) :
        cn \in {EmptyDict, [clientname |-> PyStr(<<"a", "l">>)],
                [clientname |-> PyStr(<<>>)]},
        vi \in {EmptyDict, [visible |-> PyBool(TRUE)], [visible |-> PyBool(FALSE)]},
        sp \in {EmptyDict, [split |-> PyBool(FALSE)], [split |-> PyStr(<<>>)],
                [split |-> PyStr(<<",">>)], [split |-> PyStr(<<";">>)]},
        cv \in {EmptyDict, [clientvalue |-> PyStr(Placeholder)],
                [clientvalue |-> PyStr(PrefixSuffix)],
                [clientvalue |-> PyStr(TwoPlaceholders)],
                [clientvalue |-> PyStr(<<"c">>)]} }

Transform1Defaults ==
    { get_default_cfg(d).val :
        d \in {NoneCfg, SomeCfg([visible |-> PyBool(FALSE)]),
               SomeCfg([split |-> PyStr(<<";">>)])} }

\* the resolved column configs transform1 is called with
ResolvedCfgs ==
    { get_column_config(d, c).val : d \in Transform1Defaults, c \in Transform1ColumnCfgs }

CallTransform1 ==
    /\ call = NoCall
    /\ \E value \in CellValues, cfg \in ResolvedCfgs :
          call' = [fn |-> "transform1", value |-> value, cfg |-> cfg,
                   ret |-> transform1(value, cfg)]
    /\ UNCHANGED <<tvars, pt>>

NextTransform1 == CallTransform1

SpecTransform1 == Init /\ [][NextTransform1]_vars

(***************************************************************************)
(* Vocabulary of the properties                                            *)
(***************************************************************************)
\* the positions of s inside an occurrence of the {{ value }} placeholder
PlaceholderPositions(s) ==
    {q \in 1..Len(s) :
        \E i \in 1..q : MatchValueAt(s, i) > 0 /\ q <= MatchValueAt(s, i)}

\* the positions of s inside its first occurrence of the placeholder
FirstPlaceholderPositions(s) ==
    {q \in 1..Len(s) :
        \E i \in 1..q :
            /\ MatchValueAt(s, i) > 0 /\ q <= MatchValueAt(s, i)
            /\ \A j \in 1..(i - 1) : MatchValueAt(s, j) = 0}

\* s without the characters at the positions in gone
Without(s, gone) ==
    LET kept[i \in 0..Len(s)] ==
            IF i = 0 THEN <<>>
            ELSE IF i \in gone THEN kept[i - 1]
            ELSE Append(kept[i - 1], s[i])
    IN  kept[Len(s)]

\* a {{ ... }}-shaped token occurs in s
HasToken(s) == \E i \in 1..Len(s) : MatchTokenAt(s, i) > 0

\* a {{ ... }}-shaped token other than the {{ value }} placeholder occurs in s
HasForeignToken(s) ==
    \E i \in 1..Len(s) : MatchTokenAt(s, i) > 0 /\ MatchValueAt(s, i) = 0

EightOptionalKeys ==
    {"clientname", "clientvalue", "includeclient", "position", "include",
     "split", "type", "visible"}
SixDefaultKeys ==
    {"clientvalue", "includeclient", "include", "split", "type", "visible"}

\* name is missing or empty, or a key is not recognized
BadKeys(cfg) ==
    \/ "name" \notin DOMAIN cfg
    \/ cfg["name"].s = <<>>
    \/ ~((DOMAIN cfg) \subseteq (EightOptionalKeys \cup {"name"}))

\* a token is left in clientvalue once every placeholder is removed
LeftoverToken(cfg) ==
    /\ "clientvalue" \in DOMAIN cfg
    /\ HasToken(Without(cfg["clientvalue"].s,
                        PlaceholderPositions(cfg["clientvalue"].s)))

Constructed == pc \in {"ready", "transformed"}

(***************************************************************************)
(* C1: whenever transform returns a result for a row, the result has one   *)
(* (key, values) pair per supplied column config, in the order the column  *)
(* configs were supplied, and the i-th pair is transform1 of the cell at   *)
(* headerindexmap[name_i] under the i-th resolved config; headers no       *)
(* column config names contribute nothing.                                 *)
(***************************************************************************)
C1_TransformOrder ==
    (pc = "transformed" /\ rowkvs.exc = "") =>
        /\ Len(rowkvs.val) = Len(column_cfgs_arg)
        /\ \A i \in 1..Len(column_cfgs_arg) :
              LET name == column_cfgs_arg[i]["name"].s
                  r == transform1(rowvalues[headerindexmap[name] + 1],
                                  DictUpdate(defaults, column_cfgs_arg[i]))
              IN  r.exc = "" /\ rowkvs.val[i] = r.val

\* two columns configured against header order, a third header unconfigured
C1_Witness ==
    /\ pc = "transformed"
    /\ rowkvs.exc = ""
    /\ Len(headers) = 3
    /\ Len(rowkvs.val) = 2
    /\ output_configs[1][2] > output_configs[2][2]

(***************************************************************************)
(* C2: transform fails whenever the row's length differs from the number   *)
(* of headers, repeated header names included.                             *)
(***************************************************************************)
C2_RowLengthMismatchFails ==
    (pc = "transformed" /\ Len(rowvalues) # Len(headers)) => rowkvs.exc # ""

(***************************************************************************)
(* C3: after a successful construction no resolved column config has a     *)
(* clientvalue holding a {{ ... }} token other than the placeholder,       *)
(* whether supplied by the column config or inherited from the defaults.   *)
(***************************************************************************)
C3_NoForeignTokenAfterConstruction ==
    Constructed =>
        \A i \in 1..Len(output_configs) :
            ~HasForeignToken(output_configs[i][1]["clientvalue"].s)

(***************************************************************************)
(* C4 as stated: validate_column_config removes exactly one placeholder    *)
(* and raises exactly when a token remains (so two placeholders are        *)
(* rejected).                                                              *)
(***************************************************************************)
C4_StripsExactlyOne ==
    (/\ call.fn = "validate_column_config"
     /\ ~BadKeys(call.cfg)
     /\ "clientvalue" \in DOMAIN call.cfg) =>
        LET cv == call.cfg["clientvalue"].s
        IN  (call.ret.exc = "Exception")
                <=> HasToken(Without(cv, FirstPlaceholderPositions(cv)))

(***************************************************************************)
(* C4 amended: validate_column_config removes every occurrence of the      *)
(* placeholder from clientvalue and raises exactly when a token remains    *)
(* in the stripped string; a clientvalue made of two placeholders is       *)
(* accepted.                                                               *)
(***************************************************************************)
C4_StripsEvery ==
    (/\ call.fn = "validate_column_config"
     /\ ~BadKeys(call.cfg)
     /\ "clientvalue" \in DOMAIN call.cfg) =>
        LET cv == call.cfg["clientvalue"].s
        IN  /\ (call.ret.exc = "Exception")
                  <=> HasToken(Without(cv, PlaceholderPositions(cv)))
            /\ cv = TwoPlaceholders => call.ret.exc = ""

C4_Witness ==
    /\ call.fn = "validate_column_config"
    /\ ~BadKeys(call.cfg)
    /\ "clientvalue" \in DOMAIN call.cfg
    /\ call.cfg["clientvalue"].s = TwoPlaceholders
    /\ call.ret.exc = ""

(***************************************************************************)
(* C5 as stated: validation raises exactly for the column configs that     *)
(* lack name, have an empty name or hold an unrecognized key, whatever     *)
(* the values of the optional keys.                                        *)
(***************************************************************************)
C5_KeysAloneDecide ==
    call.fn = "validate_column_config" =>
        ((call.ret.exc = "Exception") <=> BadKeys(call.cfg))

(***************************************************************************)
(* C5 amended: validation raises for every column config that lacks name,  *)
(* has an empty name or holds an unrecognized key, and succeeds for every  *)
(* config with a non-empty name and any subset of the eight optional keys  *)
(* unless its clientvalue leaves a token once the placeholders are gone.   *)
(***************************************************************************)
C5_KeysAndTemplateDecide ==
    call.fn = "validate_column_config" =>
        /\ call.ret.exc \in {"", "Exception"}
        /\ (call.ret.exc = "Exception")
              <=> (BadKeys(call.cfg) \/ LeftoverToken(call.cfg))

\* name and all eight optional keys, accepted
C5_Witness ==
    /\ call.fn = "validate_column_config"
    /\ DOMAIN call.cfg = EightOptionalKeys \cup {"name"}
    /\ call.ret.exc = ""

BaseDefault(k) ==
    CASE k = "clientvalue" -> PyStr(<<"{", "{", " ", "v", "a", "l", "u", "e", " ", "}", "}">>)
      [] k = "includeclient" -> PyBool(TRUE)
      [] k = "include" -> PyBool(TRUE)
      [] k = "split" -> PyBool(FALSE)
      [] k = "type" -> PyStr(<<"s", "t", "r", "i", "n", "g">>)
      [] k = "visible" -> PyBool(TRUE)

(***************************************************************************)
(* C6: option precedence is column config > caller defaults > base         *)
(* defaults.  get_default_cfg raises for a caller key outside the six      *)
(* recognized options and otherwise returns all six keys, each caller      *)
(* value replacing the base default; a resolved column config holds every  *)
(* key of the resolved defaults and of the column config, the column       *)
(* config's value winning; resolving a column leaves the resolved          *)
(* defaults as they were.                                                  *)
(***************************************************************************)
C6_Precedence ==
    /\ call.fn = "get_default_cfg" =>
          LET given == IF call.cfg.none THEN EmptyDict ELSE call.cfg.d
          IN  IF ~((DOMAIN given) \subseteq SixDefaultKeys)
              THEN call.ret.exc = "Exception"
              ELSE /\ call.ret.exc = ""
                   /\ DOMAIN call.ret.val = SixDefaultKeys
                   /\ \A k \in SixDefaultKeys :
                         call.ret.val[k] =
                             IF k \in DOMAIN given THEN given[k] ELSE BaseDefault(k)
    /\ call.fn = "get_column_config" =>
          /\ call.ret.defaults = call.self_defaults
          /\ call.ret.exc = "" =>
                /\ DOMAIN call.ret.val =
                       (DOMAIN call.self_defaults) \cup (DOMAIN call.cfg)
                /\ \A k \in DOMAIN call.ret.val :
                      call.ret.val[k] =
                          IF k \in DOMAIN call.cfg THEN call.cfg[k]
                          ELSE call.self_defaults[k]

\* a column overrides an option the caller's defaults had already overridden
C6_Witness ==
    /\ call.fn = "get_column_config"
    /\ call.ret.exc = ""
    /\ call.self_defaults["visible"] = PyBool(FALSE)
    /\ "split" \in DOMAIN call.cfg
    /\ call.ret.val["split"] = PyStr(<<",">>)
    /\ call.ret.val["visible"] = PyBool(FALSE)
    /\ call.ret.val["type"] = BaseDefault("type")

BadConstructorArgs ==
    \/ ~((DOMAIN (IF default_cfg.none THEN EmptyDict ELSE default_cfg.d))
            \subseteq SixDefaultKeys)
    \/ \E i \in 1..Len(column_cfgs_arg) :
          \/ BadKeys(column_cfgs_arg[i])
          \/ LeftoverToken(column_cfgs_arg[i])
          \/ \A j \in 1..Len(headers) : headers[j] # column_cfgs_arg[i]["name"].s

(***************************************************************************)
(* C7: construction is all-or-nothing.  With an unrecognized default key,  *)
(* a column config that fails validation or a column name that matches no  *)
(* header, construction raises (Exception, or its subclass KeyError from   *)
(* the header lookup) and no transformer exists to call transform on; a    *)
(* constructed transformer has one output config per column config, each   *)
(* with a valid header position whose header equals the config's name.     *)
(***************************************************************************)
C7_AllOrNothing ==
    /\ Constructed => ~BadConstructorArgs
    /\ pc = "failed" =>
          /\ BadConstructorArgs
          /\ error \in {"Exception", "KeyError"}
          /\ rowkvs = Return(<<>>) /\ rowvalues = <<>>
    /\ Constructed =>
          /\ error = ""
          /\ Len(output_configs) = Len(column_cfgs_arg)
          /\ \A i \in 1..Len(output_configs) :
                LET idx == output_configs[i][2]
                IN  /\ idx \in 0..(Len(headers) - 1)
                    /\ headers[idx + 1] = output_configs[i][1]["name"].s
                    /\ headers[idx + 1] = column_cfgs_arg[i]["name"].s

\* every column validated, then a name with no header stopped construction
C7_Witness ==
    /\ pc = "failed"
    /\ error = "KeyError"
    /\ Len(column_cfgs) = 2
    /\ Len(output_configs) = 1

(***************************************************************************)
(* C8: the key transform1 returns is the config's clientname when present  *)
(* and otherwise its name, prefixed with "__" exactly when the resolved    *)
(* visible option is false; the prefix goes on the overridden key, and     *)
(* the key does not depend on the cell value.                              *)
(***************************************************************************)
C8_Key ==
    (call.fn = "transform1" /\ call.ret.exc = "") =>
        LET cfg == call.cfg
            base == IF "clientname" \in DOMAIN cfg THEN cfg["clientname"].s
                    ELSE cfg["name"].s
        IN  call.ret.val[1] =
                IF cfg["visible"] = PyBool(FALSE) THEN <<"_", "_">> \o base
                ELSE base

\* a hidden column with a clientname
C8_Witness ==
    /\ call.fn = "transform1"
    /\ call.ret.exc = ""
    /\ call.cfg["visible"] = PyBool(FALSE)
    /\ "clientname" \in DOMAIN call.cfg
    /\ call.ret.val[1] = <<"_", "_", "a", "l">>

(***************************************************************************)
(* C9: transform_gen yields, row by row in input order, the pairs          *)
(* (headers[i], row[i]) in header order, whatever configuration the        *)
(* constructor was given; a row of the wrong length raises when it is      *)
(* reached, after the earlier rows' results were yielded, and nothing is   *)
(* yielded for it.                                                         *)
(***************************************************************************)
C9_PassThrough ==
    pt.state # "none" =>
        /\ \A r \in 1..Len(pt.out) :
              /\ Len(pt.out[r]) = Len(pt.headers)
              /\ Len(pt.values[r]) = Len(pt.headers)
              /\ \A i \in 1..Len(pt.headers) :
                    pt.out[r][i] = <<pt.headers[i], pt.values[r][i]>>
        /\ pt.state \in {"suspended", "done"} =>
              /\ Len(pt.out) = pt.pos
              /\ pt.exc = ""
        /\ pt.state = "done" => pt.pos = Len(pt.values)
        /\ pt.state = "failed" =>
              /\ pt.exc = "AssertionError"
              /\ Len(pt.values[pt.pos]) # Len(pt.headers)
              /\ Len(pt.out) = pt.pos - 1
        /\ \A r \in 1..pt.pos :
              Len(pt.values[r]) # Len(pt.headers) =>
                  (pt.state = "failed" /\ pt.pos = r)

\* a good row was yielded, then the second row had the wrong length;
\* the constructor had been given a configuration
C9_Witness ==
    /\ pt.state = "failed"
    /\ Len(pt.out) = 1
    /\ Len(pt.headers) = 2
    /\ pt.args[2] # <<>>

\* the values list of a transform1 call: the stripped pieces, or the value alone,
\* each put through the clientvalue template
C10_Shape ==
    LET pieces == IF Truthy(call.cfg["split"])
                  THEN str_split(call.value, call.cfg["split"].s)
                  ELSE <<call.value>>
        values == call.ret.val[2]
    IN  /\ Len(values) >= 1
        /\ Len(values) = Len(pieces)
        /\ \A i \in 1..Len(values) :
              values[i] = valuesub(IF Truthy(call.cfg["split"])
                                   THEN str_strip(pieces[i]) ELSE pieces[i],
                                   call.cfg["clientvalue"].s).val

(***************************************************************************)
(* C10: for every cell value and resolved column config transform1         *)
(* returns a values list of length at least 1: one stripped element per    *)
(* delimiter-separated piece when split is truthy, otherwise one element;  *)
(* templating keeps the list's length and order.                           *)
(***************************************************************************)
C10_ValuesList ==
    call.fn = "transform1" => (call.ret.exc = "" /\ C10_Shape)

\* the same, for the calls that return
C10_ValuesListWhenReturned ==
    (call.fn = "transform1" /\ call.ret.exc = "") => C10_Shape

====
